---- MODULE Spec2Model ----
(***************************************************************************)
(* Model of the MainAgent backend:                                         *)
(*   - the research flow (agent/flow.py, agent/nodes.py) run by the chat   *)
(*     endpoint (main.py),                                                 *)
(*   - the conversation-memory helpers (agent/memory.py),                  *)
(*   - the MCP tool client (agent/mcp_client.py).                          *)
(* Strings whose structure matters (context, tool names, message bodies)   *)
(* are sequences of tokens; "" is << >>.                                   *)
(***************************************************************************)
EXTENDS Integers, Sequences, FiniteSets, TLC

(* ----------------------------- bounds ---------------------------------- *)
\* hop ceiling the orchestrator is required to enforce (externally supplied)
HopCeiling == 4
\* node executions explored per run
MaxHops == HopCeiling + 1
\* chat requests explored
MaxRequests == 2

(* --------------------------- variables --------------------------------- *)
VARIABLES
    node,            \* position of the running flow, or idle / end / crash
    shared,          \* the run's shared dict (main.py:76-82)
    decision,        \* exec_res of the last DecideActionNode.exec
    lastRaw,         \* raw policy text of the last DecideActionNode.exec
    firstDecision,   \* exec_res of the run's first decision visit
    decideVisits,    \* visits of the decision node in this run
    searchVisits,    \* visits of the search node in this run
    hops,            \* node executions in this run
    prev,            \* the node that executed last in this run
    requests,        \* chat requests started so far
    metrics_buffer,  \* main.py:27
    response,        \* last ChatResponse (or none / error)
    payload,         \* the ChatRequest being served
    answerWrites,    \* assignments to shared["answer"] in this run
    retrieved,       \* the retrieve node executed in this run
    lastBatch,       \* exec_res of the last RetrieveRAGNode.exec
    lastSearch,      \* exec_res of the last SearchWebNode.exec
    evals_response,  \* last EvalResponse.recent
    ragRouted,       \* the decision node returned "rag" in this run
    ragTrail,        \* nodes executed in this run since it did
    embedCalls,      \* get_embedding calls of EmbedQueryNode in this run
    embeddingWrites, \* assignments to shared["query_embedding"] in this run
    storeCalls,      \* get_rag_store calls of RetrieveRAGNode in this run
    lastQuery,       \* query of the last search_web_ddg call
    lastAnswerText,  \* text stored by the last AnswerNode.post
    lastToolResult,  \* result of the tool node's last call_tool in this run
    pending,         \* requests accepted and waiting for the event loop
    overlapped,      \* a request arrived while a run was in progress
    messages,        \* short-term window of one session (list of role/content)
    window_size,     \* capacity passed to should_archive_memory
    mem_session,     \* session id the window belongs to
    store,           \* long-term index: id -> [values, metadata]
    lastUpsert,      \* vectors of the last index.upsert call
    upserts,         \* number of index.upsert calls
    clock,           \* time.time() in milliseconds
    nextId,          \* number of the next message to be created
    lastOriginal,    \* window handed to the last archival pass
    lastPair,        \* oldest pair returned by the last archival pass
    passes,          \* archival passes so far
    turns,           \* turns so far
    fromEmpty,       \* the window was empty initially
    archivedNow,     \* the last step ended with an archival pass
    added,           \* ghost: the add_to_memory calls so far
    retrQuery,       \* arguments of the last retrieve_from_memory
    lastRetrieve,    \* result of the last retrieve_from_memory
    retrievals,      \* retrieve_from_memory calls so far
    addedSince,      \* add_to_memory was called after the last retrieval
    repeated,        \* the last retrieval repeated the one before it
    enabled,         \* MCP server name -> credentials present
    tool_name,       \* argument of the last call_tool
    tool_result,     \* outcome of the last call_tool
    toolCalls,       \* call_tool calls so far
    listed,          \* result of the last get_tools
    listCalls,       \* get_tools calls so far
    calledEntry      \* listed tool the last call_tool was made for

flowVars == <<node, shared, decision, lastRaw, firstDecision, decideVisits,
              searchVisits, hops, prev, requests, metrics_buffer, response,
              payload, answerWrites, retrieved, lastBatch, lastSearch,
              evals_response, ragRouted, ragTrail, embedCalls, embeddingWrites,
              storeCalls, lastQuery, lastAnswerText, lastToolResult,
              pending, overlapped>>

memVars == <<messages, window_size, mem_session, store, lastUpsert, upserts,
             clock, nextId, lastOriginal, lastPair, passes, turns, fromEmpty,
             archivedNow>>

retrVars == <<added, retrQuery, lastRetrieve, retrievals, addedSince, repeated>>

toolVars == <<enabled, tool_name, tool_result, toolCalls, listed, listCalls,
              calledEntry>>

vars == <<flowVars, memVars, retrVars, toolVars>>

(* ------------------------- input domains ------------------------------- *)
\* ChatRequest.message is any string, the empty one included
Questions == {<<"q1">>, << >>}
NoSession == "None"
SessionIds == {"s1", NoSession}

Obj(o) == [type |-> "object", obj |-> o]
NonObject == [type |-> "list"]

\* JSON objects the policy may emit
PolicyObjects ==
    { ("action" :> "search" @@ "search_query" :> <<"sq1">>),
      ("action" :> "search"),
      ("action" :> "rag"),
      ("action" :> "tool"),
      ("action" :> "answer" @@ "answer" :> "A1"),
      ("action" :> "answer"),
      ("reason" :> "r"),
      ("action" :> "foo") }

\* raw policy outputs: text that is not JSON, or text encoding a JSON value
NotJson(t) == [json |-> FALSE, text |-> t]
NonJsonTexts == {NotJson("sorry"), NotJson("{action:")}
NoRaw == [json |-> FALSE, text |-> ""]
RawOutputs ==
    NonJsonTexts \cup {[json |-> TRUE, val |-> NonObject]}
              \cup {[json |-> TRUE, val |-> Obj(o)] : o \in PolicyObjects}

\* texts the completion call returns to the answer node
LlmTexts == {"A1", "L1"}

NoDecision == [type |-> "none"]
NoResponse == [status |-> 0]

\* result batches of search_web_ddg: real hits, no hit, or the placeholder
Hit(n) == [title |-> "t" \o n, href |-> "h" \o n, body |-> "b" \o n]
Unavailable == [title |-> "Search unavailable", href |-> "", body |-> "Search failed: exc"]
SearchBatches == { << >>, <<Hit("1"), Hit("2")>>, <<Unavailable>> }

\* embedding vectors returned by get_embedding
Embeddings == { << >>, <<1>> }

\* matches the retrieval index holds for a query, best first
Doc(n) == [text |-> "x" \o n, source |-> "d" \o n, score |-> 1]
IndexMatches == { << >>, <<Doc("1")>>, <<Doc("1"), Doc("2"), Doc("3"), Doc("4")>> }

\* store.search(embedding, top_k): the first top_k matches ([] on failure)
StoreSearch(matches, top_k) ==
    SubSeq(matches, 1, IF Len(matches) < top_k THEN Len(matches) ELSE top_k)

\* top_k=3 in RetrieveRAGNode.exec
RagTopK == 3
RagBatches == { StoreSearch(m, RagTopK) : m \in IndexMatches }

(* ----------------------------- helpers --------------------------------- *)
\* dict.get(k, d)
Get(d, k, default) == IF k \in DOMAIN d THEN d[k] ELSE default

\* d[k] = v
Put(d, k, v) == [x \in (DOMAIN d) \cup {k} |-> IF x = k THEN v ELSE d[x]]

\* sep.join(parts) on token strings
RECURSIVE Join(_, _)
Join(parts, sep) ==
    IF parts = << >> THEN << >>
    ELSE IF Len(parts) = 1 THEN parts[1]
    ELSE parts[1] \o sep \o Join(Tail(parts), sep)

IsPrefix(s, t) == Len(s) <= Len(t) /\ SubSeq(t, 1, Len(s)) = s

(* ---------------------------- MCP client ------------------------------- *)
MaxToolCalls == 3
MaxListCalls == 2

\* names of the configured servers (keys of MCP_SERVERS)
MCP_SERVERS == { <<"weather">>, <<"langfuse">> }

\* a tool name is a string cut into tokens: "_" or a run of other characters
NoneArg == <<"None">>
ToolNames ==
    { <<"weather", "_", "getForecast">>,
      <<"weather", "_", "get", "_", "weather">>,
      <<"langfuse", "_", "listPrompts">>,
      <<"weather">>,
      <<"langfuse", "_">>,
      <<"foo", "_", "bar">>,
      <<"foo">>,
      <<"_", "x">>,
      << >>,
      NoneArg }
IsStr(name) == name # NoneArg

\* what the connection to the server does once it is attempted
Transports == {"text", "empty", "raise"}

Returned(v, conn) == [raised |-> FALSE, value |-> v, connected |-> conn]
Raised(e, conn) == [raised |-> TRUE, value |-> e, connected |-> conn]

\* mutant: the name is cut at its last "_" (rsplit)
SplitFirst_AtLast(name) ==
    LET i == CHOOSE k \in 1..Len(name) :
                 name[k] = "_" /\ \A j \in (k + 1)..Len(name) : name[j] # "_"
    IN <<SubSeq(name, 1, i - 1), SubSeq(name, i + 1, Len(name))>>

\* tool_name.split("_", 1)
SplitFirst(name) ==
    LET i == CHOOSE k \in 1..Len(name) :
                 name[k] = "_" /\ \A j \in 1..(k - 1) : name[j] # "_"
    IN <<SubSeq(name, 1, i - 1), SubSeq(name, i + 1, Len(name))>>

NotConfigured == " is not configured (missing credentials)"

\* mutant: the credentials test is skipped
CallToolAsync_NoEnabledCheck(name, en, transport) ==
    IF ~IsStr(name)
    THEN Raised(<<"argument of type 'NoneType' is not iterable">>, FALSE)
    ELSE IF \A k \in 1..Len(name) : name[k] # "_"
    THEN Returned(<<"Error: Invalid tool name format: ">> \o name, FALSE)
    ELSE LET server_name == SplitFirst(name)[1]
             original_tool_name == SplitFirst(name)[2]
         IN IF server_name \notin MCP_SERVERS
            THEN Returned(<<"Error: Unknown server: ">> \o server_name, FALSE)
            ELSE IF transport = "text"
            THEN Returned(<<"text of ">> \o original_tool_name, TRUE)
            ELSE IF transport = "empty"
            THEN Returned(<<"str(result)">>, TRUE)
            ELSE Returned(<<"Error executing tool ">> \o name \o <<": ", "exc">>,
                          TRUE)

\* _call_tool_async
CallToolAsync(name, en, transport) ==
    IF ~IsStr(name)
    THEN Raised(<<"argument of type 'NoneType' is not iterable">>, FALSE)
    ELSE IF \A k \in 1..Len(name) : name[k] # "_"
    THEN Returned(<<"Error: Invalid tool name format: ">> \o name, FALSE)
    ELSE LET server_name == SplitFirst(name)[1]
             original_tool_name == SplitFirst(name)[2]
         IN IF server_name \notin MCP_SERVERS
            THEN Returned(<<"Error: Unknown server: ">> \o server_name, FALSE)
            ELSE IF ~en[server_name]
            THEN Returned(<<"Error: Server ">> \o server_name \o <<NotConfigured>>,
                          FALSE)
            ELSE IF transport = "text"
            THEN Returned(<<"text of ">> \o original_tool_name, TRUE)
            ELSE IF transport = "empty"
            THEN Returned(<<"str(result)">>, TRUE)
            ELSE Returned(<<"Error executing tool ">> \o name \o <<": ", "exc">>,
                          TRUE)

\* call_tool
CallToolResult(name, en, transport) ==
    LET r == CallToolAsync(name, en, transport) IN
    IF r.raised
    THEN Returned(<<"Error executing tool ">> \o name \o <<": ">> \o r.value,
                  r.connected)
    ELSE r

NoResult == [raised |-> FALSE, value |-> << >>, connected |-> FALSE]

\* MCP_SERVERS.items() in insertion order
ServerOrder == << <<"weather">>, <<"langfuse">> >>

\* tool names a server may report from list_tools, tokenised like ToolNames
ToolLists ==
    { << >>,
      << <<"getForecast">> >>,
      << <<"getForecast">>, <<"get", "_", "weather">> >>,
      << <<"_", "x">>, << >> >> }

\* what the list_tools connection does once it is attempted
ListOutcomes == {"ok", "raise"}

\* _get_tools_from_server (description and inputSchema are left out)
GetToolsFromServer(server_name, en, tools, outcome) ==
    IF ~en[server_name]
    THEN << >>
    ELSE IF outcome = "raise"
    THEN << >>
    ELSE [ i \in 1..Len(tools) |->
             [ name |-> server_name \o <<"_">> \o tools[i],
               _server |-> server_name,
               _original_name |-> tools[i] ] ]

\* _get_tools_async
RECURSIVE GetToolsAsync(_, _, _, _)
GetToolsAsync(k, en, offered, outcomes) ==
    IF k > Len(ServerOrder)
    THEN << >>
    ELSE GetToolsFromServer(ServerOrder[k], en, offered[ServerOrder[k]],
                            outcomes[ServerOrder[k]])
         \o GetToolsAsync(k + 1, en, offered, outcomes)

NoEntry == [name |-> NoneArg, _server |-> << >>, _original_name |-> << >>]

(* ------------------------------ flow ----------------------------------- *)
\* edge table built by create_research_flow; a node's post returning None
\* selects the "default" edge
\* mutant: retrieval is a branch point that hands back to the decision node
Successors_RetrieveBranches ==
    [ decide   |-> ("search" :> "search" @@ "rag" :> "embed" @@
                    "tool" :> "tool" @@ "answer" :> "answer"),
      search   |-> ("decide" :> "decide"),
      tool     |-> ("decide" :> "decide"),
      embed    |-> ("default" :> "retrieve"),
      retrieve |-> ("default" :> "decide"),
      answer   |-> [x \in {} |-> "end"] ]

\* mutant: the answer node has an outgoing edge back to the decision node
Successors_AnswerLoops ==
    [ decide   |-> ("search" :> "search" @@ "rag" :> "embed" @@
                    "tool" :> "tool" @@ "answer" :> "answer"),
      search   |-> ("decide" :> "decide"),
      tool     |-> ("decide" :> "decide"),
      embed    |-> ("default" :> "retrieve"),
      retrieve |-> ("default" :> "answer"),
      answer   |-> ("default" :> "decide") ]

\* mutant: the edge from the tool node back to the decision node is missing
Successors_ToolDeadEnd ==
    [ decide   |-> ("search" :> "search" @@ "rag" :> "embed" @@
                    "tool" :> "tool" @@ "answer" :> "answer"),
      search   |-> ("decide" :> "decide"),
      tool     |-> [x \in {} |-> "end"],
      embed    |-> ("default" :> "retrieve"),
      retrieve |-> ("default" :> "answer"),
      answer   |-> [x \in {} |-> "end"] ]

Successors ==
    [ decide   |-> ("search" :> "search" @@ "rag" :> "embed" @@
                    "tool" :> "tool" @@ "answer" :> "answer"),
      search   |-> ("decide" :> "decide"),
      tool     |-> ("decide" :> "decide"),
      embed    |-> ("default" :> "retrieve"),
      retrieve |-> ("default" :> "answer"),
      answer   |-> [x \in {} |-> "end"] ]

\* Flow orchestration: the successor registered for the returned action; the
\* flow ends when there is none
NextNode(n, action) ==
    IF action \in DOMAIN Successors[n] THEN Successors[n][action] ELSE "end"

\* shared dict created by chat_endpoint
FreshShared(q) ==
    [ question |-> q, context |-> << >>, search_history |-> << >>,
      rag_results |-> << >>,
      metrics |-> [search_count |-> 0, rag_hits |-> 0] ]

\* mutant: the fallback decision forgets the question
DecideExec_EmptyQuery(question, raw) ==
    IF raw.json THEN raw.val
    ELSE Obj("action" :> "rag" @@ "reason" :> "fallback" @@ "search_query" :> << >>)

\* DecideActionNode.exec after call_llm returned raw
DecideExec(question, raw) ==
    IF raw.json THEN raw.val
    ELSE Obj("action" :> "rag" @@ "reason" :> "fallback" @@ "search_query" :> question)

\* mutant: a decision without search_query leaves an empty query
DecidePost_NoQuestionFallback(sh, o) ==
    LET action == Get(o, "action", "rag") IN
    [ shared |-> IF action = "search"
                 THEN Put(sh, "search_query", Get(o, "search_query", << >>))
                 ELSE IF action = "answer"
                 THEN Put(sh, "answer", Get(o, "answer", ""))
                 ELSE sh,
      action |-> action ]

\* DecideActionNode.post on a dict exec_res: the new shared and the token
DecidePost(sh, o) ==
    LET action == Get(o, "action", "rag") IN
    [ shared |-> IF action = "search"
                 THEN Put(sh, "search_query", Get(o, "search_query", sh.question))
                 ELSE IF action = "answer"
                 THEN Put(sh, "answer", Get(o, "answer", ""))
                 ELSE sh,
      action |-> action ]

\* snippet built in SearchWebNode.post
Snippet(r) == <<r.title, " - ", r.href, "\n", r.body>>

\* mutant: the counter moves only when the batch has results
SearchPost_CountOnHits(sh, exec_res) ==
    LET snippets == [i \in 1..Len(exec_res) |-> Snippet(exec_res[i])]
        sh1 == IF snippets # << >>
               THEN [sh EXCEPT !.context = @ \o Join(snippets, <<"\n\n">>)]
               ELSE sh
        sh2 == [sh1 EXCEPT !.search_history = Append(@, exec_res)]
    IN [ shared |-> IF snippets # << >>
                    THEN [sh2 EXCEPT !.metrics.search_count = @ + 1]
                    ELSE sh2,
         action |-> "decide" ]

\* mutant: the context is overwritten with the new snippets
SearchPost_ReplacesContext(sh, exec_res) ==
    LET snippets == [i \in 1..Len(exec_res) |-> Snippet(exec_res[i])]
        sh1 == IF snippets # << >>
               THEN [sh EXCEPT !.context = Join(snippets, <<"\n\n">>)]
               ELSE sh
        sh2 == [sh1 EXCEPT !.search_history = Append(@, exec_res)]
    IN [ shared |-> [sh2 EXCEPT !.metrics.search_count = @ + 1],
         action |-> "decide" ]

\* mutant: a batch without results leaves the loop-back token out
SearchPost_DeadEndOnEmpty(sh, exec_res) ==
    LET snippets == [i \in 1..Len(exec_res) |-> Snippet(exec_res[i])]
        sh1 == IF snippets # << >>
               THEN [sh EXCEPT !.context = @ \o Join(snippets, <<"\n\n">>)]
               ELSE sh
        sh2 == [sh1 EXCEPT !.search_history = Append(@, exec_res)]
    IN [ shared |-> [sh2 EXCEPT !.metrics.search_count = @ + 1],
         action |-> IF snippets # << >> THEN "decide" ELSE "default" ]

\* mutant: an empty batch is not recorded in the history
SearchPost_SkipsEmptyBatch(sh, exec_res) ==
    LET snippets == [i \in 1..Len(exec_res) |-> Snippet(exec_res[i])]
        sh1 == IF snippets # << >>
               THEN [sh EXCEPT !.context = @ \o Join(snippets, <<"\n\n">>),
                               !.search_history = Append(@, exec_res)]
               ELSE sh
    IN [ shared |-> [sh1 EXCEPT !.metrics.search_count = @ + 1],
         action |-> "decide" ]

\* SearchWebNode.post
SearchPost(sh, exec_res) ==
    LET snippets == [i \in 1..Len(exec_res) |-> Snippet(exec_res[i])]
        sh1 == IF snippets # << >>
               THEN [sh EXCEPT !.context = @ \o Join(snippets, <<"\n\n">>)]
               ELSE sh
        sh2 == [sh1 EXCEPT !.search_history = Append(@, exec_res)]
    IN [ shared |-> [sh2 EXCEPT !.metrics.search_count = @ + 1],
         action |-> "decide" ]

\* mutant: the store is queried whatever the embedding
RetrieveExec_AlwaysSearches(embedding, matches) ==
    [batch |-> StoreSearch(matches, RagTopK), store_called |-> TRUE]

\* RetrieveRAGNode.exec: no store call without an embedding
RetrieveExec(embedding, matches) ==
    IF embedding = << >> THEN [batch |-> << >>, store_called |-> FALSE]
    ELSE [batch |-> StoreSearch(matches, RagTopK), store_called |-> TRUE]

\* RetrieveRAGNode.post
RetrievePost(sh, exec_res) ==
    [sh EXCEPT !.rag_results = exec_res, !.metrics.rag_hits = Len(exec_res)]

\* deque(maxlen=50).appendleft
MetricsCap == 50

\* mutant: a lost update, the new entry takes the place of the newest one
AppendLeft_Overwrites(buf, e) ==
    IF buf = << >> THEN <<e>> ELSE <<e>> \o Tail(buf)

\* mutant: a deque without maxlen
AppendLeft_NoCap(buf, e) == <<e>> \o buf

AppendLeft(buf, e) ==
    LET s == <<e>> \o buf IN
    IF Len(s) > MetricsCap THEN SubSeq(s, 1, MetricsCap) ELSE s

(* --------------------------- flow actions ------------------------------ *)
\* no run in progress, no response sent yet
InitRun ==
    /\ node = "idle"
    /\ shared = FreshShared(<< >>)
    /\ decision = NoDecision
    /\ lastRaw = NoRaw
    /\ firstDecision = NoDecision
    /\ decideVisits = 0
    /\ searchVisits = 0
    /\ hops = 0
    /\ prev = "none"
    /\ response = NoResponse
    /\ payload = [message |-> << >>, session_id |-> NoSession]
    /\ answerWrites = 0
    /\ retrieved = FALSE
    /\ lastBatch = << >>
    /\ lastSearch = << >>
    /\ evals_response = << >>
    /\ ragRouted = FALSE
    /\ ragTrail = << >>
    /\ embedCalls = 0
    /\ embeddingWrites = 0
    /\ storeCalls = 0
    /\ lastQuery = << >>
    /\ lastAnswerText = ""
    /\ lastToolResult = << >>
    /\ pending = << >>
    /\ overlapped = FALSE

InitFlow ==
    /\ InitRun
    /\ requests = 0
    /\ metrics_buffer = << >>

\* chat_endpoint up to flow.run on request p: a fresh shared dict seeded
\* with the message
StartRun(p) ==
    /\ node = "idle"
    /\ payload' = p
    /\ shared' = FreshShared(p.message)
    /\ node' = "decide"
    /\ decision' = NoDecision
    /\ firstDecision' = NoDecision
    /\ decideVisits' = 0
    /\ searchVisits' = 0
    /\ hops' = 0
    /\ prev' = "none"
    /\ response' = NoResponse
    /\ lastRaw' = NoRaw
    /\ UNCHANGED metrics_buffer
    /\ answerWrites' = 0
    /\ retrieved' = FALSE
    /\ lastBatch' = << >>
    /\ lastSearch' = << >>
    /\ UNCHANGED evals_response
    /\ ragRouted' = FALSE
    /\ ragTrail' = << >>
    /\ embedCalls' = 0
    /\ embeddingWrites' = 0
    /\ storeCalls' = 0
    /\ lastQuery' = << >>
    /\ lastAnswerText' = ""
    /\ lastToolResult' = << >>
    /\ UNCHANGED <<memVars, retrVars, toolVars>>

\* a request arrives while the event loop is free and is served at once
ChatStart ==
    /\ requests < MaxRequests
    /\ \E q \in Questions, sid \in SessionIds :
         StartRun([message |-> q, session_id |-> sid])
    /\ requests' = requests + 1
    /\ UNCHANGED <<pending, overlapped>>

\* a request arrives at any time; its handler waits for the event loop
Arrive ==
    /\ requests < MaxRequests
    /\ \E q \in Questions, sid \in SessionIds :
         pending' = Append(pending, [message |-> q, session_id |-> sid])
    /\ requests' = requests + 1
    /\ overlapped' = (overlapped \/ node # "idle")
    /\ UNCHANGED <<node, shared, decision, lastRaw, firstDecision, decideVisits,
                   searchVisits, hops, prev, metrics_buffer, response, payload,
                   answerWrites, retrieved, lastBatch, lastSearch, evals_response,
                   ragRouted, ragTrail, embedCalls, embeddingWrites, storeCalls,
                   lastQuery, lastAnswerText, lastToolResult>>
    /\ UNCHANGED <<memVars, retrVars, toolVars>>

\* the event loop starts the handler of the oldest waiting request; the
\* handler of chat_endpoint never awaits, so this happens between runs only
Dispatch ==
    /\ pending # << >>
    /\ StartRun(Head(pending))
    /\ pending' = Tail(pending)
    /\ UNCHANGED <<requests, overlapped>>

\* DecideActionNode: call_llm returned raw; exec parses it, post routes
Decide ==
    /\ node = "decide"
    /\ hops < MaxHops
    /\ \E raw \in RawOutputs :
         LET exec_res == DecideExec(shared.question, raw) IN
         /\ lastRaw' = raw
         /\ decision' = exec_res
         /\ firstDecision' = IF decideVisits = 0 THEN exec_res ELSE firstDecision
         /\ IF exec_res.type = "object"
            THEN LET p == DecidePost(shared, exec_res.obj) IN
                 /\ shared' = p.shared
                 /\ node' = NextNode("decide", p.action)
                 /\ answerWrites' = IF p.action = "answer"
                                    THEN answerWrites + 1 ELSE answerWrites
            ELSE \* exec_res.get raises AttributeError in post
                 /\ shared' = shared
                 /\ node' = "crash"
                 /\ answerWrites' = answerWrites
    /\ decideVisits' = decideVisits + 1
    /\ hops' = hops + 1
    /\ prev' = node
    /\ UNCHANGED <<searchVisits, requests, metrics_buffer, response, payload>>
    /\ UNCHANGED <<retrieved, lastBatch, lastSearch, evals_response>>
    /\ ragTrail' = (IF ragRouted THEN Append(ragTrail, node) ELSE ragTrail)
    /\ ragRouted' = (ragRouted \/ node' = "embed")
    /\ UNCHANGED <<embedCalls, embeddingWrites, storeCalls, lastQuery, lastAnswerText>>
    /\ UNCHANGED lastToolResult
    /\ UNCHANGED <<pending, overlapped>>
    /\ UNCHANGED <<memVars, retrVars, toolVars>>

\* DecideActionNode.exec: call_llm raises (no retry, no fallback)
DecideLlmError ==
    /\ node = "decide"
    /\ hops < MaxHops
    /\ node' = "crash"
    /\ decideVisits' = decideVisits + 1
    /\ hops' = hops + 1
    /\ prev' = node
    /\ lastRaw' = NoRaw
    /\ decision' = NoDecision
    /\ UNCHANGED <<shared, firstDecision, searchVisits, requests, metrics_buffer,
                   response, payload>>
    /\ UNCHANGED <<answerWrites, retrieved, lastBatch, lastSearch, evals_response>>
    /\ ragTrail' = (IF ragRouted THEN Append(ragTrail, node) ELSE ragTrail)
    /\ UNCHANGED <<ragRouted, embedCalls, embeddingWrites, storeCalls, lastQuery, lastAnswerText>>
    /\ UNCHANGED lastToolResult
    /\ UNCHANGED <<pending, overlapped>>
    /\ UNCHANGED <<memVars, retrVars, toolVars>>

\* SearchWebNode: search_web_ddg never raises, it returns a batch
Search ==
    /\ node = "search"
    /\ hops < MaxHops
    /\ \E batch \in SearchBatches :
         LET p == SearchPost(shared, batch) IN
         /\ shared' = p.shared
         /\ lastSearch' = batch
         /\ node' = NextNode("search", p.action)
    /\ searchVisits' = searchVisits + 1
    /\ hops' = hops + 1
    /\ prev' = node
    /\ UNCHANGED <<decision, lastRaw, firstDecision, decideVisits, requests,
                   metrics_buffer, response, payload>>
    /\ UNCHANGED <<answerWrites, retrieved, lastBatch, evals_response>>
    /\ ragTrail' = (IF ragRouted THEN Append(ragTrail, node) ELSE ragTrail)
    /\ lastQuery' = Get(shared, "search_query", << >>)
    /\ UNCHANGED <<ragRouted, embedCalls, embeddingWrites, storeCalls, lastAnswerText>>
    /\ UNCHANGED lastToolResult
    /\ UNCHANGED <<pending, overlapped>>
    /\ UNCHANGED <<memVars, retrVars, toolVars>>

\* the tool the tool node asks for
RequestedTool == <<"weather", "_", "getForecast">>

\* tool-execution node: runs the tool call and routes back to the decision
ExecuteTool ==
    /\ node = "tool"
    /\ hops < MaxHops
    /\ node' = NextNode("tool", "decide")
    /\ hops' = hops + 1
    /\ prev' = node
    /\ UNCHANGED <<shared, decision, lastRaw, firstDecision, decideVisits,
                   searchVisits, requests, metrics_buffer, response, payload>>
    /\ UNCHANGED <<answerWrites, retrieved, lastBatch, lastSearch, evals_response>>
    /\ ragTrail' = (IF ragRouted THEN Append(ragTrail, node) ELSE ragTrail)
    /\ UNCHANGED <<ragRouted, embedCalls, embeddingWrites, storeCalls, lastQuery, lastAnswerText>>
    /\ \E transport \in Transports :
         lastToolResult' = CallToolResult(RequestedTool, enabled, transport).value
    /\ UNCHANGED <<pending, overlapped>>
    /\ UNCHANGED <<memVars, retrVars, toolVars>>

\* EmbedQueryNode: get_embedding returned a vector; post returns None
Embed ==
    /\ node = "embed"
    /\ hops < MaxHops
    /\ \E e \in Embeddings : shared' = Put(shared, "query_embedding", e)
    /\ node' = NextNode("embed", "default")
    /\ hops' = hops + 1
    /\ prev' = node
    /\ UNCHANGED <<decision, lastRaw, firstDecision, decideVisits, searchVisits,
                   requests, metrics_buffer, response, payload>>
    /\ UNCHANGED <<answerWrites, retrieved, lastBatch, lastSearch, evals_response>>
    /\ ragTrail' = (IF ragRouted THEN Append(ragTrail, node) ELSE ragTrail)
    /\ embedCalls' = embedCalls + 1
    /\ embeddingWrites' = embeddingWrites + 1
    /\ UNCHANGED <<ragRouted, storeCalls, lastQuery, lastAnswerText>>
    /\ UNCHANGED lastToolResult
    /\ UNCHANGED <<pending, overlapped>>
    /\ UNCHANGED <<memVars, retrVars, toolVars>>

\* EmbedQueryNode.exec: get_embedding raises
EmbedError ==
    /\ node = "embed"
    /\ hops < MaxHops
    /\ node' = "crash"
    /\ hops' = hops + 1
    /\ prev' = node
    /\ UNCHANGED <<shared, decision, lastRaw, firstDecision, decideVisits,
                   searchVisits, requests, metrics_buffer, response, payload>>
    /\ UNCHANGED <<answerWrites, retrieved, lastBatch, lastSearch, evals_response>>
    /\ ragTrail' = (IF ragRouted THEN Append(ragTrail, node) ELSE ragTrail)
    /\ embedCalls' = embedCalls + 1
    /\ UNCHANGED <<ragRouted, embeddingWrites, storeCalls, lastQuery, lastAnswerText>>
    /\ UNCHANGED lastToolResult
    /\ UNCHANGED <<pending, overlapped>>
    /\ UNCHANGED <<memVars, retrVars, toolVars>>

\* RetrieveRAGNode: empty batch without a store query when there is no
\* embedding, else the store's batch (RAGStore.search returns [] on failure)
Retrieve ==
    /\ node = "retrieve"
    /\ hops < MaxHops
    /\ \E matches \in IndexMatches :
         LET exec_res == RetrieveExec(Get(shared, "query_embedding", << >>), matches)
         IN /\ shared' = RetrievePost(shared, exec_res.batch)
            /\ lastBatch' = exec_res.batch
            /\ storeCalls' = (IF exec_res.store_called
                              THEN storeCalls + 1 ELSE storeCalls)
    /\ node' = NextNode("retrieve", "default")
    /\ hops' = hops + 1
    /\ prev' = node
    /\ UNCHANGED <<decision, lastRaw, firstDecision, decideVisits, searchVisits,
                   requests, metrics_buffer, response, payload>>
    /\ retrieved' = TRUE
    /\ UNCHANGED <<answerWrites, lastSearch, evals_response>>
    /\ ragTrail' = (IF ragRouted THEN Append(ragTrail, node) ELSE ragTrail)
    /\ UNCHANGED <<ragRouted, embedCalls, embeddingWrites, lastQuery, lastAnswerText>>
    /\ UNCHANGED lastToolResult
    /\ UNCHANGED <<pending, overlapped>>
    /\ UNCHANGED <<memVars, retrVars, toolVars>>

\* RetrieveRAGNode.exec: get_rag_store raises (store cannot be constructed)
RetrieveError ==
    /\ node = "retrieve"
    /\ hops < MaxHops
    /\ Get(shared, "query_embedding", << >>) # << >>
    /\ node' = "crash"
    /\ hops' = hops + 1
    /\ prev' = node
    /\ UNCHANGED <<shared, decision, lastRaw, firstDecision, decideVisits,
                   searchVisits, requests, metrics_buffer, response, payload>>
    /\ UNCHANGED <<answerWrites, retrieved, lastBatch, lastSearch, evals_response>>
    /\ ragTrail' = (IF ragRouted THEN Append(ragTrail, node) ELSE ragTrail)
    /\ storeCalls' = storeCalls + 1
    /\ UNCHANGED <<ragRouted, embedCalls, embeddingWrites, lastQuery, lastAnswerText>>
    /\ UNCHANGED lastToolResult
    /\ UNCHANGED <<pending, overlapped>>
    /\ UNCHANGED <<memVars, retrVars, toolVars>>

\* AnswerNode: call_llm returned text; post stores it and returns None
Answer ==
    /\ node = "answer"
    /\ hops < MaxHops
    /\ \E text \in LlmTexts :
         /\ shared' = Put(shared, "answer", text)
         /\ lastAnswerText' = text
    /\ node' = NextNode("answer", "default")
    /\ hops' = hops + 1
    /\ prev' = node
    /\ UNCHANGED <<decision, lastRaw, firstDecision, decideVisits, searchVisits,
                   requests, metrics_buffer, response, payload>>
    /\ answerWrites' = answerWrites + 1
    /\ UNCHANGED <<retrieved, lastBatch, lastSearch, evals_response>>
    /\ ragTrail' = (IF ragRouted THEN Append(ragTrail, node) ELSE ragTrail)
    /\ UNCHANGED <<ragRouted, embedCalls, embeddingWrites, storeCalls, lastQuery>>
    /\ UNCHANGED lastToolResult
    /\ UNCHANGED <<pending, overlapped>>
    /\ UNCHANGED <<memVars, retrVars, toolVars>>

\* AnswerNode.exec: call_llm raises
AnswerError ==
    /\ node = "answer"
    /\ hops < MaxHops
    /\ node' = "crash"
    /\ hops' = hops + 1
    /\ prev' = node
    /\ UNCHANGED <<shared, decision, lastRaw, firstDecision, decideVisits,
                   searchVisits, requests, metrics_buffer, response, payload>>
    /\ UNCHANGED <<answerWrites, retrieved, lastBatch, lastSearch, evals_response>>
    /\ ragTrail' = (IF ragRouted THEN Append(ragTrail, node) ELSE ragTrail)
    /\ UNCHANGED <<ragRouted, embedCalls, embeddingWrites, storeCalls, lastQuery, lastAnswerText>>
    /\ UNCHANGED lastToolResult
    /\ UNCHANGED <<pending, overlapped>>
    /\ UNCHANGED <<memVars, retrVars, toolVars>>

\* mutant: the response lists the excerpts instead of their sources
Sources_Texts(rag_results) == [i \in 1..Len(rag_results) |-> rag_results[i].text]

\* [item["source"] for item in shared.get("rag_results", [])]
Sources(rag_results) == [i \in 1..Len(rag_results) |-> rag_results[i].source]

\* chat_endpoint after flow.run returned: metrics entry, then the response
ChatFinish ==
    /\ node = "end"
    /\ LET entry == [ session_id |-> IF payload.session_id = NoSession
                                     THEN "anonymous" ELSE payload.session_id,
                      searches |-> shared.metrics.search_count,
                      rag_hits |-> shared.metrics.rag_hits ]
       IN metrics_buffer' = AppendLeft(metrics_buffer, entry)
    /\ response' = [ status |-> 200,
                     answer |-> Get(shared, "answer", ""),
                     sources |-> Sources(shared.rag_results) ]
    /\ node' = "idle"
    /\ UNCHANGED <<shared, decision, lastRaw, firstDecision, decideVisits,
                   searchVisits, hops, prev, requests, payload>>
    /\ UNCHANGED <<answerWrites, retrieved, lastBatch, lastSearch, evals_response>>
    /\ UNCHANGED <<ragRouted, ragTrail, embedCalls, embeddingWrites, storeCalls, lastQuery, lastAnswerText>>
    /\ UNCHANGED lastToolResult
    /\ UNCHANGED <<pending, overlapped>>
    /\ UNCHANGED <<memVars, retrVars, toolVars>>

\* chat_endpoint when flow.run raised: the exception leaves the handler
ChatAbort ==
    /\ node = "crash"
    /\ response' = [status |-> 500]
    /\ node' = "idle"
    /\ UNCHANGED <<shared, decision, lastRaw, firstDecision, decideVisits,
                   searchVisits, hops, prev, requests, metrics_buffer, payload>>
    /\ UNCHANGED <<answerWrites, retrieved, lastBatch, lastSearch, evals_response>>
    /\ UNCHANGED <<ragRouted, ragTrail, embedCalls, embeddingWrites, storeCalls, lastQuery, lastAnswerText>>
    /\ UNCHANGED lastToolResult
    /\ UNCHANGED <<pending, overlapped>>
    /\ UNCHANGED <<memVars, retrVars, toolVars>>

\* evals_endpoint: a copy of the buffer; the handlers run on one event loop
\* and chat_endpoint never awaits, so no run is in progress here
Evals ==
    /\ node = "idle"
    /\ evals_response' = metrics_buffer
    /\ UNCHANGED <<node, shared, decision, lastRaw, firstDecision, decideVisits,
                   searchVisits, hops, prev, requests, metrics_buffer, response,
                   payload, answerWrites, retrieved, lastBatch, lastSearch>>
    /\ UNCHANGED <<ragRouted, ragTrail, embedCalls, embeddingWrites, storeCalls,
                   lastQuery, lastAnswerText>>
    /\ UNCHANGED lastToolResult
    /\ UNCHANGED <<pending, overlapped>>
    /\ UNCHANGED <<memVars, retrVars, toolVars>>

\* one step of the handler that holds the event loop
RunStep ==
    \/ Decide
    \/ DecideLlmError
    \/ Search
    \/ ExecuteTool
    \/ Embed
    \/ EmbedError
    \/ Retrieve
    \/ RetrieveError
    \/ Answer
    \/ AnswerError
    \/ ChatFinish
    \/ ChatAbort

NextFlow ==
    \/ ChatStart
    \/ RunStep

(* ----------------------------- memory ---------------------------------- *)
\* bounds of the memory model
MaxInitPairs == 3
MaxTurns == 4
MaxClock == 2

\* metadata truncation length of add_to_memory
MetaLimit == 1000
\* default of should_archive_memory's window_size
DefaultWindowSize == 6
WindowSizes == {2, 3, DefaultWindowSize}
MemSessions == {"s1", "s2"}
MemEmbeddings == { <<1>> }

Min(a, b) == IF a < b THEN a ELSE b

\* message bodies: the first len characters of the text written as message
\* number text; every empty body is the same string
EmptyText == [text |-> 0, len |-> 0]
Content(id, n) == IF n = 0 THEN EmptyText ELSE [text |-> id, len |-> n]
ContentLens == {1, MetaLimit, MetaLimit + 1}
RoleOf(id) == IF id % 2 = 1 THEN "user" ELSE "assistant"
Msg(id, n) == [role |-> RoleOf(id), content |-> Content(id, n)]

\* mutant: the capacity test is off by one
ShouldArchiveMemory_OffByOne(msgs, size) == Len(msgs) > size + 1

\* should_archive_memory
ShouldArchiveMemory(msgs, size) == Len(msgs) > size

\* mutant: a single entry is taken as a pair
ExtractOldestPair_TakesSingle(msgs) ==
    IF Len(msgs) < 1
    THEN [pair |-> << >>, remaining |-> msgs]
    ELSE [pair |-> SubSeq(msgs, 1, IF Len(msgs) < 2 THEN 1 ELSE 2),
          remaining |-> SubSeq(msgs, 3, Len(msgs))]

\* mutant: the remainder starts one entry too early
ExtractOldestPair_KeepsSecond(msgs) ==
    IF Len(msgs) < 2
    THEN [pair |-> << >>, remaining |-> msgs]
    ELSE [pair |-> SubSeq(msgs, 1, 2), remaining |-> SubSeq(msgs, 2, Len(msgs))]

\* extract_oldest_pair
ExtractOldestPair(msgs) ==
    IF Len(msgs) < 2
    THEN [pair |-> << >>, remaining |-> msgs]
    ELSE [pair |-> SubSeq(msgs, 1, 2), remaining |-> SubSeq(msgs, 3, Len(msgs))]

\* next((msg for msg in conversation if msg["role"] == role), {"content": ""})
FirstWithRole(conversation, role) ==
    LET idx == {i \in 1..Len(conversation) : conversation[i].role = role} IN
    IF idx = {} THEN [content |-> EmptyText]
    ELSE conversation[CHOOSE i \in idx : \A j \in idx : i <= j]

\* s[:n]
Truncate(s, n) == Content(s.text, Min(n, s.len))

\* f"{session_id}_{int(time.time() * 1000)}"
AutoId(sid, now) == <<sid, "_", now>>

\* mutant: the metadata carries the messages untruncated
MemoryVector_NoTruncation(sid, conversation, embedding, now) ==
    [ id |-> AutoId(sid, now),
      values |-> embedding,
      metadata |->
        [ session_id |-> sid,
          user_message |-> FirstWithRole(conversation, "user").content,
          assistant_message |-> FirstWithRole(conversation, "assistant").content,
          timestamp |-> now \div 1000,
          type |-> "conversation_memory" ] ]

\* add_to_memory with conversation_id=None at time now: the vector it upserts
MemoryVector(sid, conversation, embedding, now) ==
    [ id |-> AutoId(sid, now),
      values |-> embedding,
      metadata |->
        [ session_id |-> sid,
          user_message |->
              Truncate(FirstWithRole(conversation, "user").content, MetaLimit),
          assistant_message |->
              Truncate(FirstWithRole(conversation, "assistant").content, MetaLimit),
          timestamp |-> now \div 1000,
          type |-> "conversation_memory" ] ]

\* index.upsert(vectors=[(id, values, metadata)])
Upsert(index, v) ==
    [x \in (DOMAIN index) \cup {v.id} |->
        IF x = v.id THEN [values |-> v.values, metadata |-> v.metadata]
        ELSE index[x]]

NoVector == [id |-> << >>]
EmptyIndex == [x \in {} |-> NoVector]

\* a window of n exchanges restored for a session
InitWindow(n) == [i \in 1..(2 * n) |-> Msg(i, 1)]

\* no retrieve_from_memory and no add_to_memory call yet
NoQuery == [session_id |-> "None", query |-> << >>, k |-> 0]
NoMemory == [found |-> FALSE]
InitRetr ==
    /\ added = {}
    /\ retrQuery = NoQuery
    /\ lastRetrieve = NoMemory
    /\ retrievals = 0
    /\ addedSince = FALSE
    /\ repeated = FALSE

InitMemIdle ==
    /\ InitRetr
    /\ messages = << >>
    /\ window_size = DefaultWindowSize
    /\ mem_session = "s1"
    /\ store = EmptyIndex
    /\ lastUpsert = NoVector
    /\ upserts = 0
    /\ clock = 0
    /\ nextId = 1
    /\ lastOriginal = << >>
    /\ lastPair = << >>
    /\ passes = 0
    /\ turns = 0
    /\ fromEmpty = TRUE
    /\ archivedNow = FALSE

InitMem ==
    /\ InitRetr
    /\ \E n \in 0..MaxInitPairs :
         /\ messages = InitWindow(n)
         /\ nextId = 2 * n + 1
         /\ fromEmpty = (n = 0)
    /\ window_size \in WindowSizes
    /\ mem_session \in MemSessions
    /\ store = EmptyIndex
    /\ lastUpsert = NoVector
    /\ upserts = 0
    /\ clock = 0
    /\ lastOriginal = << >>
    /\ lastPair = << >>
    /\ passes = 0
    /\ turns = 0
    /\ archivedNow = FALSE

\* one archival pass over window w at time now: extract the oldest pair,
\* embed it, add it to the long-term memory, keep the remainder
ArchiveInto(w, now) ==
    LET r == ExtractOldestPair(w) IN
    \E emb \in MemEmbeddings :
      LET v == MemoryVector(mem_session, r.pair, emb, now) IN
      /\ store' = Upsert(store, v)
      /\ lastUpsert' = v
      /\ upserts' = upserts + 1
      /\ messages' = r.remaining
      /\ lastOriginal' = w
      /\ lastPair' = r.pair
      /\ passes' = passes + 1
      /\ archivedNow' = TRUE

\* a turn: the user message and the assistant reply are appended, then one
\* archival pass runs if should_archive_memory says so
MemTurn ==
    /\ turns < MaxTurns
    /\ \E n \in ContentLens, dt \in 0..1 :
         LET w == messages \o <<Msg(nextId, n), Msg(nextId + 1, n)>>
             now == clock + dt
         IN /\ now <= MaxClock
            /\ clock' = now
            /\ IF ShouldArchiveMemory(w, window_size)
               THEN ArchiveInto(w, now)
               ELSE /\ messages' = w
                    /\ archivedNow' = FALSE
                    /\ UNCHANGED <<store, lastUpsert, upserts, lastOriginal,
                                   lastPair, passes>>
    /\ nextId' = nextId + 2
    /\ turns' = turns + 1
    /\ UNCHANGED <<window_size, mem_session, fromEmpty>>
    /\ UNCHANGED <<flowVars, retrVars, toolVars>>

\* an archival pass on its own, on a window that is over capacity
MemArchivePass ==
    /\ ShouldArchiveMemory(messages, window_size)
    /\ \E dt \in 0..1 :
         LET now == clock + dt IN
         /\ now <= MaxClock
         /\ clock' = now
         /\ ArchiveInto(messages, now)
    /\ UNCHANGED <<window_size, mem_session, fromEmpty, nextId, turns>>
    /\ UNCHANGED <<flowVars, retrVars, toolVars>>

NextMem ==
    \/ MemTurn
    \/ MemArchivePass

\* message lists handed to extract_oldest_pair: any roles, any length
MaxListLen == 5
MaxExtracts == 2
MessageLists ==
    UNION { [1..n -> {Msg(1, 1), Msg(2, 1)}] : n \in 0..MaxListLen }

InitLists ==
    /\ InitRetr
    /\ messages \in MessageLists
    /\ window_size = DefaultWindowSize
    /\ mem_session = "s1"
    /\ store = EmptyIndex
    /\ lastUpsert = NoVector
    /\ upserts = 0
    /\ clock = 0
    /\ nextId = 1
    /\ lastOriginal = << >>
    /\ lastPair = << >>
    /\ passes = 0
    /\ turns = 0
    /\ fromEmpty = (messages = << >>)
    /\ archivedNow = FALSE

\* a caller applies extract_oldest_pair to the list and keeps the remainder
MemExtract ==
    /\ passes < MaxExtracts
    /\ LET r == ExtractOldestPair(messages) IN
         /\ lastOriginal' = messages
         /\ lastPair' = r.pair
         /\ messages' = r.remaining
    /\ passes' = passes + 1
    /\ UNCHANGED <<window_size, mem_session, store, lastUpsert, upserts, clock,
                   nextId, turns, fromEmpty, archivedNow>>
    /\ UNCHANGED <<flowVars, retrVars, toolVars>>

(* ----------------------- long-term retrieval -------------------------- *)
MaxAdds == 2
MaxRetrievals == 2

\* get_embedding as a function of its text; embeddings are one-dimensional
Queries == {<<"qa">>, <<"qb">>}
QueryEmbedding(q) == IF q = <<"qa">> THEN <<1>> ELSE <<2>>
StoreEmbeddings == { <<1>>, <<2>> }
TopKs == {1, 2}

\* similarity of two vectors as the index reports it: the nearer the higher
Score(a, b) == 10 - (IF a[1] < b[1] THEN b[1] - a[1] ELSE a[1] - b[1])

\* position of a record among equally scored ones (fixed by the index)
IdKey(id) == 2 * id[3] + (IF id[1] = "s1" THEN 0 ELSE 1)

\* the metadata filter of index.query: every key must equal
Passes(metadata, filter) ==
    \A key \in DOMAIN filter : metadata[key] = filter[key]

\* ids ordered by descending score
RECURSIVE Ranked(_, _, _)
Ranked(index, ids, vector) ==
    IF ids = {} THEN << >>
    ELSE LET best == CHOOSE x \in ids : \A y \in ids \ {x} :
                        \/ Score(index[x].values, vector) > Score(index[y].values, vector)
                        \/ /\ Score(index[x].values, vector) = Score(index[y].values, vector)
                           /\ IdKey(x) < IdKey(y)
         IN <<best>> \o Ranked(index, ids \ {best}, vector)

\* mutant: the filter is not applied
QueryIndex_NoFilter(index, vector, top_k, filter) ==
    LET ranked == Ranked(index, DOMAIN index, vector) IN
    [i \in 1..Min(top_k, Len(ranked)) |->
        [ id |-> ranked[i],
          score |-> Score(index[ranked[i]].values, vector),
          metadata |-> index[ranked[i]].metadata ]]

\* index.query(vector, top_k, filter, include_metadata=True).matches
QueryIndex(index, vector, top_k, filter) ==
    LET ids == {x \in DOMAIN index : Passes(index[x].metadata, filter)}
        ranked == Ranked(index, ids, vector)
    IN [i \in 1..Min(top_k, Len(ranked)) |->
          [ id |-> ranked[i],
            score |-> Score(index[ranked[i]].values, vector),
            metadata |-> index[ranked[i]].metadata ]]

\* retrieve_from_memory: None, or (conversation, score) of the best match
RetrieveFromMemory(index, session_id, query, k) ==
    LET matches == QueryIndex(index, QueryEmbedding(query), k,
                     [session_id |-> session_id, type |-> "conversation_memory"])
    IN IF matches = << >> THEN NoMemory
       ELSE [ found |-> TRUE,
              conversation |->
                << [role |-> "user", content |-> matches[1].metadata.user_message],
                   [role |-> "assistant",
                    content |-> matches[1].metadata.assistant_message] >>,
              score |-> matches[1].score ]

\* a caller archives an exchange: add_to_memory without conversation_id
MemAdd ==
    /\ upserts < MaxAdds
    /\ \E sid \in MemSessions, emb \in StoreEmbeddings, dt \in 0..1 :
         LET now == clock + dt
             conversation == <<Msg(nextId, 1), Msg(nextId + 1, 1)>>
             v == MemoryVector(sid, conversation, emb, now)
         IN /\ now <= MaxClock
            /\ clock' = now
            /\ store' = Upsert(store, v)
            /\ lastUpsert' = v
            /\ added' = added \cup {[session_id |-> sid, conversation |-> conversation]}
    /\ upserts' = upserts + 1
    /\ nextId' = nextId + 2
    /\ addedSince' = TRUE
    /\ UNCHANGED <<messages, window_size, mem_session, lastOriginal, lastPair,
                   passes, turns, fromEmpty, archivedNow>>
    /\ UNCHANGED <<retrQuery, lastRetrieve, retrievals, repeated>>
    /\ UNCHANGED <<flowVars, toolVars>>

\* conversation_id arguments of add_to_memory
NoneId == << >>
ExplicitIds == { <<"c1">>, <<"c2">> }
Exchanges == { <<Msg(1, 1), Msg(2, 1)>>, <<Msg(3, 1), Msg(4, 1)>> }

\* mutant: the id is generated also when the caller gives one
AddVector_IgnoresId(sid, conversation, embedding, conversation_id, now) ==
    MemoryVector(sid, conversation, embedding, now)

\* add_to_memory: the vector it upserts, under the caller's id if given
AddVector(sid, conversation, embedding, conversation_id, now) ==
    [ MemoryVector(sid, conversation, embedding, now)
        EXCEPT !.id = IF conversation_id = NoneId THEN @ ELSE conversation_id ]

\* a caller archives an exchange under an id of its own
MemAddWithId ==
    /\ upserts < MaxAdds
    /\ \E sid \in MemSessions, emb \in StoreEmbeddings, dt \in 0..1,
          cid \in ExplicitIds, conversation \in Exchanges :
         LET now == clock + dt
             v == AddVector(sid, conversation, emb, cid, now)
         IN /\ now <= MaxClock
            /\ clock' = now
            /\ store' = Upsert(store, v)
            /\ lastUpsert' = v
            /\ added' = added \cup {[session_id |-> sid, conversation |-> conversation,
                                     id |-> cid]}
    /\ upserts' = upserts + 1
    /\ addedSince' = TRUE
    /\ UNCHANGED <<messages, window_size, mem_session, nextId, lastOriginal,
                   lastPair, passes, turns, fromEmpty, archivedNow>>
    /\ UNCHANGED <<retrQuery, lastRetrieve, retrievals, repeated>>
    /\ UNCHANGED <<flowVars, toolVars>>

\* mutant: the retrieval keeps the query as a memory of the session
MemRetrieve_RemembersQuery ==
    /\ retrievals < MaxRetrievals
    /\ \E sid \in MemSessions, q \in Queries, k \in TopKs :
         LET asked == [session_id |-> sid, query |-> q, k |-> k] IN
         /\ lastRetrieve' = RetrieveFromMemory(store, sid, q, k)
         /\ repeated' = (retrievals > 0 /\ ~addedSince /\ asked = retrQuery)
         /\ retrQuery' = asked
         /\ store' = Upsert(store, MemoryVector(sid, << >>, QueryEmbedding(q), clock))
    /\ retrievals' = retrievals + 1
    /\ addedSince' = FALSE
    /\ UNCHANGED <<messages, window_size, mem_session, lastUpsert, upserts,
                   clock, nextId, lastOriginal, lastPair, passes, turns,
                   fromEmpty, archivedNow, added>>
    /\ UNCHANGED <<flowVars, toolVars>>

\* a caller asks retrieve_from_memory(index, sid, q, k)
MemRetrieve ==
    /\ retrievals < MaxRetrievals
    /\ \E sid \in MemSessions, q \in Queries, k \in TopKs :
         LET asked == [session_id |-> sid, query |-> q, k |-> k] IN
         /\ lastRetrieve' = RetrieveFromMemory(store, sid, q, k)
         /\ repeated' = (retrievals > 0 /\ ~addedSince /\ asked = retrQuery)
         /\ retrQuery' = asked
    /\ retrievals' = retrievals + 1
    /\ addedSince' = FALSE
    /\ UNCHANGED <<messages, window_size, mem_session, store, lastUpsert, upserts,
                   clock, nextId, lastOriginal, lastPair, passes, turns,
                   fromEmpty, archivedNow, added>>
    /\ UNCHANGED <<flowVars, toolVars>>

NextStore ==
    \/ MemAdd
    \/ MemRetrieve

(* ------------------------ MCP client calls ----------------------------- *)
InitToolIdle ==
    /\ enabled = [srv \in MCP_SERVERS |-> FALSE]
    /\ tool_name = << >>
    /\ tool_result = NoResult
    /\ toolCalls = 0
    /\ listed = << >>
    /\ listCalls = 0
    /\ calledEntry = NoEntry

InitTool ==
    /\ enabled \in [MCP_SERVERS -> BOOLEAN]
    /\ tool_name = << >>
    /\ tool_result = NoResult
    /\ toolCalls = 0
    /\ listed = << >>
    /\ listCalls = 0
    /\ calledEntry = NoEntry

\* a caller invokes call_tool(name, arguments)
CallTool ==
    /\ toolCalls < MaxToolCalls
    /\ \E name \in ToolNames, transport \in Transports :
         /\ tool_name' = name
         /\ tool_result' = CallToolResult(name, enabled, transport)
    /\ toolCalls' = toolCalls + 1
    /\ UNCHANGED <<enabled, listed, listCalls, calledEntry>>
    /\ UNCHANGED <<flowVars, memVars, retrVars>>

NextTool ==
    \/ CallTool

\* a caller invokes get_tools()
GetTools ==
    /\ listCalls < MaxListCalls
    /\ \E offered \in [MCP_SERVERS -> ToolLists],
          outcomes \in [MCP_SERVERS -> ListOutcomes] :
         listed' = GetToolsAsync(1, enabled, offered, outcomes)
    /\ listCalls' = listCalls + 1
    /\ UNCHANGED <<enabled, tool_name, tool_result, toolCalls, calledEntry>>
    /\ UNCHANGED <<flowVars, memVars, retrVars>>

\* a caller invokes call_tool with the name of a listed tool
CallListed ==
    /\ toolCalls < MaxToolCalls
    /\ \E i \in 1..Len(listed), transport \in Transports :
         /\ calledEntry' = listed[i]
         /\ tool_name' = listed[i].name
         /\ tool_result' = CallToolResult(listed[i].name, enabled, transport)
    /\ toolCalls' = toolCalls + 1
    /\ UNCHANGED <<enabled, listed, listCalls>>
    /\ UNCHANGED <<flowVars, memVars, retrVars>>

NextList ==
    \/ GetTools
    \/ CallListed

(* -------------------------- specifications ----------------------------- *)
\* the chat endpoint and its flow
Init == InitFlow /\ InitMemIdle /\ InitToolIdle
Next == NextFlow
Spec == Init /\ [][Next]_vars

\* the memory helpers driven turn by turn
MemInit == InitFlow /\ InitMem /\ InitToolIdle
MemSpec == MemInit /\ [][NextMem]_vars

\* the MCP client
ToolInit == InitFlow /\ InitMemIdle /\ InitTool
ToolSpec == ToolInit /\ [][NextTool]_vars

\* the MCP client listing its tools and calling the listed ones
ListSpec == ToolInit /\ [][NextList]_vars

\* the long-term memory used directly
StoreInit == InitFlow /\ InitMemIdle /\ InitToolIdle
StoreSpec == StoreInit /\ [][NextStore]_vars

\* extract_oldest_pair on arbitrary message lists
PairInit == InitFlow /\ InitLists /\ InitToolIdle
PairSpec == PairInit /\ [][MemExtract]_vars

\* the long-term memory written under ids the caller chooses
UpsertSpec == StoreInit /\ [][MemAddWithId]_vars

\* requests that arrive concurrently and queue for the event loop
\* (two requests are followed)
ConcInit ==
    /\ InitRun
    /\ requests = MaxRequests - 2
    /\ metrics_buffer = << >>
    /\ InitMemIdle
    /\ InitToolIdle
ConcNext == Arrive \/ Dispatch \/ RunStep
ConcSpec == ConcInit /\ [][ConcNext]_vars

\* the metrics buffer after n earlier runs, the n-th of them first; run i
\* made i searches
Filler(i) == [session_id |-> "anonymous", searches |-> i, rag_hits |-> 0]
Prefilled(n) == [j \in 1..n |-> Filler(n - j + 1)]
PrefillSizes == {0, MetricsCap - 1, MetricsCap}

\* the service after n earlier runs, with room for one more request
EvalInit ==
    /\ InitRun
    /\ requests = MaxRequests - 1
    /\ \E n \in PrefillSizes : metrics_buffer = Prefilled(n)
    /\ InitMemIdle
    /\ InitToolIdle
EvalNext == NextFlow \/ Evals
EvalSpec == EvalInit /\ [][EvalNext]_vars

(* ------------------------------ claims --------------------------------- *)
WellFormedAnswer(d) ==
    /\ d.type = "object"
    /\ {"action", "answer"} \subseteq DOMAIN d.obj
    /\ d.obj["action"] = "answer"

\* C1 (as claimed): when the first decision of a run is a well-formed
\* {action: "answer", answer: A}, the flow returns after exactly one visit of
\* the decision node and shared["answer"] is A.
C1_AnswerIsDecisionValue ==
    (node = "end" /\ WellFormedAnswer(firstDecision))
        => (decideVisits = 1 /\ shared["answer"] = firstDecision.obj["answer"])

\* C2 (as claimed): a hop ceiling bounds every run: once HopCeiling nodes
\* have executed, no decision, search, tool, embed or retrieve node is left
\* to run (only the answer synthesis may remain).
C2_HopCeilingForcesAnswer ==
    node \in {"decide", "search", "tool", "embed", "retrieve"} => hops < HopCeiling

Malformed(raw) ==
    \/ ~raw.json
    \/ raw.val.type # "object"
    \/ "action" \notin DOMAIN raw.val.obj
    \/ raw.val.obj["action"] \notin {"search", "rag", "tool", "answer"}

\* C3 (as claimed): after the decision node ran on a malformed policy output
\* (not JSON, JSON that is no object, action missing or unknown) the flow is
\* at the embed node: the fallback action rag was taken, the run neither
\* failed nor ended.
C3_MalformedFallsBackToRag ==
    (prev = "decide" /\ lastRaw # NoRaw /\ Malformed(lastRaw)) => node = "embed"

\* C4: whenever the policy output is not parseable as JSON, the decision
\* produced is action "rag" with search_query equal to the run's question.
C4_FallbackDeterminism ==
    lastRaw \in NonJsonTexts
        => /\ decision.type = "object"
           /\ decision.obj["action"] = "rag"
           /\ decision.obj["search_query"] = shared.question

C4_Witness ==
    /\ lastRaw \in NonJsonTexts
    /\ prev = "decide"
    /\ shared.question = <<"q1">>

\* C5: metrics.search_count equals the number of search-node visits of the
\* run in every state, and the metrics entry written at the end of the run
\* carries that number.
C5_SearchCountIsVisits ==
    /\ shared.metrics.search_count = searchVisits
    /\ (node = "idle" /\ response.status = 200)
           => metrics_buffer[1].searches = searchVisits

C5_Witness ==
    /\ node = "idle"
    /\ response.status = 200
    /\ searchVisits = 2

\* C6: within a run every step leaves the old context as a prefix of the new
\* one, and only the search node changes it.
C6_ContextAppendOnly ==
    [][ requests' = requests
          => /\ IsPrefix(shared.context, shared'.context)
             /\ (node # "search" => shared'.context = shared.context) ]_vars

C6_Witness ==
    /\ Len(shared.search_history) = 2
    /\ shared.search_history[1] # << >>
    /\ shared.search_history[2] # << >>
    /\ Len(shared.context) > Len(Join([i \in 1..Len(shared.search_history[1]) |->
                                        Snippet(shared.search_history[1][i])],
                                      <<"\n\n">>))

C8_WindowBounded ==
    fromEmpty
        => /\ Len(messages) <= window_size
           /\ passes > 0
                => /\ Len(lastPair) = 2
                   /\ lastPair[1].role = "user"
                   /\ lastPair[2].role = "assistant"
                   /\ lastPair[2].content.text = lastPair[1].content.text + 1

C8_Witness ==
    /\ fromEmpty
    /\ archivedNow
    /\ passes >= 2

IsTextPrefix(a, b) == a.len = 0 \/ (a.text = b.text /\ a.len <= b.len)

\* C9: an archival pass makes exactly one upsert; its record holds the first
\* removed message as user_message and the second as assistant_message, each
\* cut to a prefix of at most 1000 characters, the session id and the type
\* conversation_memory; the rest of the window stays in order.
C9_ArchivedRecord ==
    archivedNow
        => /\ upserts = passes
           /\ LET m == lastUpsert.metadata
                  u == lastPair[1].content
                  a == lastPair[2].content
              IN /\ IsTextPrefix(m.user_message, u)
                 /\ m.user_message.len = Min(u.len, MetaLimit)
                 /\ IsTextPrefix(m.assistant_message, a)
                 /\ m.assistant_message.len = Min(a.len, MetaLimit)
                 /\ m.session_id = mem_session
                 /\ m.type = "conversation_memory"
                 /\ lastUpsert.id \in DOMAIN store
                 /\ store[lastUpsert.id].metadata = m
           /\ messages = SubSeq(lastOriginal, 3, Len(lastOriginal))

C9_Witness ==
    /\ archivedNow
    /\ lastPair[1].content.len > MetaLimit
    /\ Len(messages) > 0

ErrorPrefixes ==
    { "Error: Invalid tool name format: ", "Error: Unknown server: ",
      "Error: Server ", "Error executing tool " }
IsErrorString(v) == v # << >> /\ v[1] \in ErrorPrefixes
Contains(v, piece) == \E i \in 1..Len(v) : v[i] = piece
HasSeparator(name) == \E k \in 1..Len(name) : name[k] = "_"
NamesServer(name, srv) == IsPrefix(srv \o <<"_">>, name)

C11_EndedRunHasAnswer ==
    node = "end" => "answer" \in DOMAIN shared

\* C12 (as claimed): shared["answer"] is assigned exactly once per run: never
\* twice, and once when the flow has returned.
C12_AnswerWrittenOnce ==
    /\ answerWrites <= 1
    /\ node = "end" => answerWrites = 1

\* a collaborator call (completion, embedding, retrieval store) raised and
\* the exception left flow.run
CollaboratorFailed ==
    /\ node = "crash"
    /\ \/ prev \in {"embed", "retrieve", "answer"}
       \/ prev = "decide" /\ lastRaw = NoRaw

\* C17 (as claimed): no collaborator failure escapes the run; the endpoint
\* still answers with a well-formed response.
C17_NoFailureEscapes ==
    ~CollaboratorFailed

\* C18 (as claimed): when the completion call fails in the decision node the
\* node still yields a routing token and the run continues at a node.
C18_PolicyFailureFallsBack ==
    (prev = "decide" /\ decideVisits > 0 /\ lastRaw = NoRaw /\ node # "idle")
        => node \in DOMAIN Successors

\* C19: the sources of a response are the source fields of the last batch
\* the retrieve node got, in order; a run that never retrieved has no sources
\* and answers with the text the answer node stored.
C19_SourcesFromLastBatch ==
    (node = "idle" /\ response.status = 200)
        => /\ response.sources = [i \in 1..Len(lastBatch) |-> lastBatch[i].source]
           /\ ~retrieved => response.sources = << >>
           /\ (~retrieved /\ prev = "answer")
                => /\ response.answer = shared["answer"]
                   /\ response.answer \in LlmTexts

C19_Witness ==
    /\ node = "idle"
    /\ response.status = 200
    /\ retrieved
    /\ response.sources = <<"d1", "d2", "d3">>

\* C20: after the search node ran, whatever the batch (empty and the
\* "Search unavailable" placeholder included), the flow is at the decision
\* node and the batch is the last entry of search_history.
C20_SearchLoopsBack ==
    prev = "search"
        => /\ node = "decide"
           /\ Len(shared.search_history) = searchVisits
           /\ shared.search_history[searchVisits] = lastSearch

C20_Witness ==
    /\ prev = "search"
    /\ node = "decide"
    /\ shared.search_history = << << >>, <<Unavailable>> >>

\* C16: the buffer never holds more than MetricsCap entries; a completed run
\* puts its entry first and shifts the others by one, dropping the last one
\* when the buffer was full; GET /api/evals returns the buffer as it is.
C16_RecentFirstCapped ==
    /\ [](Len(metrics_buffer) <= MetricsCap)
    /\ [][ /\ (node = "end" /\ node' = "idle")
              => /\ Len(metrics_buffer') = Min(Len(metrics_buffer) + 1, MetricsCap)
                 /\ metrics_buffer'[1].searches = shared.metrics.search_count
                 /\ metrics_buffer'[1].rag_hits = shared.metrics.rag_hits
                 /\ \A i \in 2..Len(metrics_buffer') :
                        metrics_buffer'[i] = metrics_buffer[i - 1]
           /\ (evals_response' # evals_response)
              => /\ evals_response' = metrics_buffer
                 /\ Len(evals_response') <= MetricsCap ]_vars

C16_Witness ==
    /\ node = "idle"
    /\ response.status = 200
    /\ Len(metrics_buffer) = MetricsCap
    /\ metrics_buffer[MetricsCap] = Filler(2)
    /\ metrics_buffer[1].searches = 1
    /\ evals_response = metrics_buffer

\* the conversation retrieve_from_memory rebuilds from the record of an
\* archived exchange
Reconstructed(conversation) ==
    << [role |-> "user",
        content |-> Truncate(FirstWithRole(conversation, "user").content, MetaLimit)],
       [role |-> "assistant",
        content |-> Truncate(FirstWithRole(conversation, "assistant").content, MetaLimit)] >>

\* C13: a retrieval for session S returns only a conversation rebuilt from
\* an exchange that was added for S, and returns None exactly when nothing
\* was added for S, whatever the records of other sessions score.
C13_SessionIsolation ==
    retrievals > 0
        => /\ lastRetrieve.found
                => \E a \in added :
                      /\ a.session_id = retrQuery.session_id
                      /\ lastRetrieve.conversation = Reconstructed(a.conversation)
           /\ ~addedSince
                => (lastRetrieve.found
                      <=> \E a \in added : a.session_id = retrQuery.session_id)
           /\ \A id \in DOMAIN store :
                  store[id].metadata.type = "conversation_memory"

C13_Witness ==
    /\ retrievals > 0
    /\ ~addedSince
    /\ lastRetrieve.found
    /\ \E id \in DOMAIN store :
          /\ store[id].metadata.session_id # retrQuery.session_id
          /\ Score(store[id].values, QueryEmbedding(retrQuery.query))
                > lastRetrieve.score

C15_OneRecordPerExchange ==
    Cardinality(DOMAIN store) = upserts

RagPath == <<"embed", "retrieve", "answer">>

\* C21: once the decision node has returned "rag", the nodes executed are
\* embed, retrieve, answer in this order and nothing else; a run that returns
\* has executed all three; get_embedding is called at most once per run and
\* query_embedding is written at most once.
C21_RagPathIsLinear ==
    /\ embedCalls <= 1
    /\ embeddingWrites <= 1
    /\ ragRouted
         => /\ IsPrefix(ragTrail, RagPath)
            /\ node \in {"embed", "retrieve", "answer", "end", "crash", "idle"}
            /\ node \in {"embed", "retrieve", "answer"}
                 => node = RagPath[Len(ragTrail) + 1]
            /\ node = "end" => ragTrail = RagPath

C21_Witness ==
    /\ ragRouted
    /\ node = "end"
    /\ ragTrail = RagPath
    /\ embedCalls = 1
    /\ embeddingWrites = 1

\* C23: after the answer node has executed no other node executes in the
\* run, and the text it stored is the answer of the run and of the response.
C23_AnswerIsTerminal ==
    prev = "answer"
        => /\ node \in {"end", "crash", "idle"}
           /\ node = "end" => Get(shared, "answer", "") = lastAnswerText
           /\ (node = "idle" /\ response.status = 200)
                => response.answer = lastAnswerText

C23_Witness ==
    /\ prev = "answer"
    /\ node = "idle"
    /\ response.status = 200
    /\ response.answer = "L1"
    /\ lastAnswerText = "L1"

\* C22: rag_hits is the length of rag_results in every state; the retrieve
\* node leaves its batch as rag_results, the batch has at most RagTopK items,
\* and without an embedding the batch is empty and the store is not called.
C22_RagHitsIsBatchLength ==
    /\ shared.metrics.rag_hits = Len(shared.rag_results)
    /\ Len(shared.rag_results) <= RagTopK
    /\ retrieved => shared.rag_results = lastBatch
    /\ ~retrieved => shared.rag_results = << >>
    /\ (retrieved /\ Get(shared, "query_embedding", << >>) = << >>)
         => /\ lastBatch = << >>
            /\ storeCalls = 0

C22_Witness ==
    /\ retrieved
    /\ prev = "retrieve"
    /\ Get(shared, "query_embedding", <<1>>) = << >>
    /\ shared.rag_results = << >>
    /\ storeCalls = 0

\* C24: after the tool node has executed the flow is at the decision node,
\* also when the tool call gave an error string; with the provider without
\* credentials the result is an error string containing "not configured".
C24_ToolRoutesBack ==
    prev = "tool"
        => /\ node = "decide"
           /\ ~enabled[<<"weather">>]
                => /\ IsErrorString(lastToolResult)
                   /\ Contains(lastToolResult, NotConfigured)

\* a run whose tool call failed and that went on to the answer node
C24_Witness ==
    /\ prev = "answer"
    /\ node = "end"
    /\ "answer" \in DOMAIN shared
    /\ IsErrorString(lastToolResult)
    /\ Contains(lastToolResult, NotConfigured)

OwnEntry ==
    [ session_id |-> IF payload.session_id = NoSession
                     THEN "anonymous" ELSE payload.session_id,
      searches |-> searchVisits,
      rag_hits |-> Len(lastBatch) ]

\* C26: with requests arriving at any time, also during a run, a run that
\* returns adds exactly one entry to the metrics buffer, made of its own
\* session and counters, in front of the entries already there; no other
\* step changes the buffer, and a waiting request changes nothing of the run
\* in progress.
C26_OneOwnEntryPerRun ==
    [][ /\ (node = "end" /\ node' = "idle")
           => /\ Len(metrics_buffer) < MetricsCap
                   => metrics_buffer' = <<OwnEntry>> \o metrics_buffer
              /\ metrics_buffer'[1] = OwnEntry
        /\ ~(node = "end" /\ node' = "idle")
           => metrics_buffer' = metrics_buffer
        /\ pending' # pending
           => \/ /\ Len(pending') = Len(pending) + 1
                 /\ shared' = shared
                 /\ node' = node
              \/ /\ pending' = Tail(pending)
                 /\ node = "idle"
                 /\ payload' = Head(pending) ]_vars

C26_Witness ==
    /\ overlapped
    /\ node = "idle"
    /\ response.status = 200
    /\ Len(metrics_buffer) = 2
    /\ metrics_buffer[1].searches = 0
    /\ metrics_buffer[1].session_id = "s1"
    /\ metrics_buffer[2].searches = 2
    /\ metrics_buffer[2].session_id = "anonymous"

\* C27: the store holds exactly one record per id given to add_to_memory,
\* however often the id was used; an add under id x leaves x mapped to the
\* new vector and every other record as it was.
C27_UpsertByExplicitId ==
    /\ [](DOMAIN store = {a.id : a \in added})
    /\ [][ upserts' = upserts + 1
             => /\ lastUpsert'.id \in ExplicitIds
                /\ DOMAIN store' = DOMAIN store \cup {lastUpsert'.id}
                /\ store'[lastUpsert'.id] = [values |-> lastUpsert'.values,
                                             metadata |-> lastUpsert'.metadata]
                /\ \A y \in DOMAIN store \ {lastUpsert'.id} :
                       store'[y] = store[y] ]_vars

\* the same id, session and conversation given twice
C27_Witness ==
    /\ upserts = 2
    /\ Cardinality(added) = 1
    /\ Cardinality(DOMAIN store) = 1

\* C28: extract_oldest_pair takes two entries from a list of at least two
\* and none from a shorter one; the pair followed by the remainder is the
\* original list.
C28_NoPartialPair ==
    passes > 0
        => /\ lastPair \o messages = lastOriginal
           /\ Len(lastOriginal) >= 2
                => /\ Len(lastPair) = 2
                   /\ Len(messages) = Len(lastOriginal) - 2
           /\ Len(lastOriginal) < 2
                => /\ lastPair = << >>
                   /\ messages = lastOriginal

C28_Witness ==
    /\ passes > 0
    /\ Len(lastOriginal) = 1
    /\ lastPair = << >>
    /\ messages = lastOriginal

\* C29: search_history is as long as metrics.search_count in every state;
\* a search-node visit appends one batch and adds one to the counter, and
\* no other node changes either of them.
C29_HistoryLengthIsCount ==
    /\ [](Len(shared.search_history) = shared.metrics.search_count)
    /\ [][ /\ node = "search"
              => /\ shared'.search_history
                       = Append(shared.search_history, lastSearch')
                 /\ shared'.metrics.search_count
                       = shared.metrics.search_count + 1
           /\ node \notin {"search", "idle"}
              => /\ shared'.search_history = shared.search_history
                 /\ shared'.metrics.search_count = shared.metrics.search_count
         ]_vars

C29_Witness ==
    /\ prev = "search"
    /\ node = "decide"
    /\ Len(shared.search_history) = 2
    /\ shared.metrics.search_count = 2
    /\ shared.search_history[1] = << >>

\* C30: every name get_tools lists is the provider name, "_" and the tool's
\* own name, and call_tool parses it back to exactly that provider and that
\* tool name, also when the tool's name contains "_"; the provider of a
\* listed tool is enabled, so tools of a disabled provider are never listed.
C30_ListedNameRoundTrip ==
    /\ \A i \in 1..Len(listed) :
         /\ listed[i].name
              = listed[i]._server \o <<"_">> \o listed[i]._original_name
         /\ SplitFirst(listed[i].name)
              = <<listed[i]._server, listed[i]._original_name>>
         /\ listed[i]._server \in MCP_SERVERS
         /\ enabled[listed[i]._server]
    /\ calledEntry # NoEntry
       => /\ tool_result.connected
          /\ tool_name = calledEntry.name
          /\ CallToolResult(tool_name, enabled, "text").value
                = <<"text of ">> \o calledEntry._original_name

C30_Witness ==
    /\ enabled[<<"weather">>]
    /\ ~enabled[<<"langfuse">>]
    /\ \E i \in 1..Len(listed) :
         listed[i]._original_name = <<"get", "_", "weather">>
    /\ calledEntry # NoEntry
    /\ calledEntry._original_name = <<"get", "_", "weather">>
    /\ tool_result.value = <<"text of ", "get", "_", "weather">>

====
